---- MODULE Spec2Model ----
(***************************************************************************)
(* Model of virttest/utils_libvirt/libvirt_ceph_utils.py: the setup and    *)
(* teardown of a ceph (rbd) backed disk of a vm.                           *)
(*                                                                         *)
(* Python strings are sequences of tokens (<<>> is the empty string), so   *)
(* that formatting, joining and splitting are computed; None is a value of *)
(* its own.  One call of create_or_cleanup_ceph_backend_vm_disk is one     *)
(* action; the calls it makes to its collaborators are recorded, in order, *)
(* in the log of the call.                                                 *)
(***************************************************************************)
EXTENDS Naturals, Sequences, FiniteSets

VARIABLES
    params,             \* the test's parameters, passed to every call
    files,              \* local file system: path -> content, existing files only
    secrets,            \* libvirt secrets: uuid -> value, defined secrets only
    remote,             \* the rbd image named by ceph_disk_name exists in the cluster
    vm_disks,           \* disks of the vm: <<kind, disk xml>>, kind is "live" or "config"
    _FILES_FOR_CLEANUP, \* the module-level list of paths
    uuids,              \* number of secrets defined so far
    last,               \* record of the latest call
    prev,               \* summary of the call before it
    ncalls              \* number of calls made

vars == <<params, files, secrets, remote, vm_disks, _FILES_FOR_CLEANUP,
          uuids, last, prev, ncalls>>

\* Number of calls of a behaviour
MaxCalls == 2

-----------------------------------------------------------------------------
(* Python values *)

None == <<"<None>">>

NoError == "NoError"

Truthy(v) == v # None /\ v # <<>>

\* "%s" % v
Str(v) == IF v = None THEN <<"None">> ELSE v

\* params.get(key, default)
Get(p, key, default) ==
    IF key \in DOMAIN p /\ p[key] # None THEN p[key] ELSE default

\* os.path.join(a, b)
Join(a, b) == a \o <<"/">> \o b

RECURSIVE SplitFrom(_, _, _, _)
SplitFrom(s, sep, i, cur) ==
    IF i > Len(s) THEN <<cur>>
    ELSE IF s[i] = sep THEN <<cur>> \o SplitFrom(s, sep, i + 1, <<>>)
    ELSE SplitFrom(s, sep, i + 1, Append(cur, s[i]))

\* s.split(sep)
Split(s, sep) == SplitFrom(s, sep, 1, <<>>)

-----------------------------------------------------------------------------
(* Paths *)

vm_name == <<"vm1">>

\* data_dir.get_tmp_dir()
TmpDir == <<"tmp">>

\* data_dir.get_data_dir()
DataDir == <<"data">>

KeyFile == Join(TmpDir, <<"ceph.key">>)

\* the path ceph.create_config_file returns
CephConf == <<"etc", "/", "ceph", "/", "ceph.conf">>

ScratchImg == Join(DataDir, vm_name \o <<"_test.img">>)

\* an image file of the caller
UserImg == <<"images", "/", "user.img">>

-----------------------------------------------------------------------------
(* The state of one call: the world, the _Config object, the log, the error *)

Ev(op, args, id) == [op |-> op, args |-> args, id |-> id]

Emit(m, e) == [m EXCEPT !.log = Append(@, e)]

Raise(m, e) == [m EXCEPT !.err = e]

\* the command c of a collaborator fails
Failed(m, c) == [m EXCEPT !.failed = @ \cup {c}]

\* an exception is pending: the statements that follow are not executed
Raised(m) == m.err # NoError

WriteFile(fs, path, content) ==
    [f \in DOMAIN fs \cup {path} |-> IF f = path THEN content ELSE fs[f]]

RemoveFile(fs, path) == [f \in DOMAIN fs \ {path} |-> fs[f]]

-----------------------------------------------------------------------------
(* Collaborators: the package manager, virttest.ceph, libvirt secrets,     *)
(* the shell commands and the vm.  m.o holds the outcome of each of them   *)
(* in this call.                                                           *)

\* utils_package.package_install(["ceph-common"])
package_install(m) == m.o.install

\* ceph.create_config_file(mon_ip): writes the file unless it exists
create_config_file(m, mon_ip) ==
    LET m1 == Emit(m, Ev("create_config_file", <<mon_ip>>, 0))
    IN  IF CephConf \in DOMAIN m1.files THEN m1
        ELSE [m1 EXCEPT !.files =
                 WriteFile(@, CephConf, <<"mon_host = ">> \o mon_ip)]

\* ceph.rbd_image_rm(mon_ip, pool, image, keyfile=...)
rbd_image_rm(m, mon_ip, pool, image, keyfile) ==
    LET m1 == Emit(m, Ev("rbd_image_rm",
                         <<pool, image, keyfile>>, 0))
    IN  IF m1.o.rm THEN [m1 EXCEPT !.remote = FALSE]
        ELSE Raise(Failed(m1, "rm"), "CmdError")

\* libvirt.create_secret(dict): defines a secret and returns its uuid
create_secret(m, usage, name) ==
    IF m.o.secret_define
    THEN LET id == m.uuids + 1
         IN  [Emit(m, Ev("create_secret", <<usage, name>>, id))
                EXCEPT !.uuids = id,
                       !.secrets = [u \in DOMAIN m.secrets \cup {id} |->
                                      IF u = id THEN None ELSE m.secrets[u]]]
    ELSE Raise(Failed(Emit(m, Ev("create_secret", <<usage, name>>, 0)),
                      "secret_define"), "TestFail")

\* virsh.secret_set_value(uuid, value): no ignore_status=False at the call
secret_set_value(m, uuid, value) ==
    LET m1 == Emit(m, Ev("secret_set_value", <<value>>, uuid))
    IN  IF m1.o.secret_set /\ uuid \in DOMAIN m1.secrets
        THEN [m1 EXCEPT !.secrets[uuid] = value]
        ELSE Failed(m1, "secret_set")

\* virsh.secret_undefine(uuid, ignore_status=True)
secret_undefine(m, uuid) ==
    [Emit(m, Ev("secret_undefine", <<>>, uuid))
       EXCEPT !.secrets = [u \in DOMAIN m.secrets \ {uuid} |-> m.secrets[u]]]

\* libvirt.delete_local_disk("file", path)
delete_local_disk(m, path) ==
    [Emit(m, Ev("delete_local_disk", <<path>>, 0))
       EXCEPT !.files = RemoveFile(@, path)]

\* os.remove(path)
os_remove(m, path) ==
    [Emit(m, Ev("os.remove", <<path>>, 0))
       EXCEPT !.files = RemoveFile(@, path)]

\* process.run("qemu-img create -f <format> <path> <size>", ignore_status=False)
qemu_img_create(m, format, path, size) ==
    LET m1 == Emit(m, Ev("qemu-img create", <<format, path, size>>, 0))
    IN  IF m1.o.img_create
        THEN [m1 EXCEPT !.files = WriteFile(@, path, <<"image">>),
                        !.created_img = TRUE]
        ELSE Raise(Failed(m1, "img_create"), "CmdError")

\* process.run("rbd -m <mon> <key_opt> info <name> 2> /dev/null ||
\*              qemu-img convert -O <format> <img> <disk_path>",
\*             ignore_status=False)
rbd_info_or_convert(m, mon_ip, key_opt, name, format, img, disk_path) ==
    LET m1 == Emit(m, Ev("rbd info || qemu-img convert",
                         <<mon_ip, key_opt, name, format, img, disk_path>>, 0))
    IN  IF m1.remote THEN m1
        ELSE IF m1.o.convert /\ img \in DOMAIN m1.files
        THEN [m1 EXCEPT !.remote = TRUE]
        ELSE Raise(Failed(m1, "convert"), "CmdError")

\* virsh.attach_device(vm_name, xml, flagstr=..., ignore_status=False)
attach_device(m, disk_xml, flagstr) ==
    LET m1 == Emit(m, Ev("attach_device", <<flagstr>>, 0))
    IN  IF m1.o.attach
        THEN [m1 EXCEPT !.vm_disks =
                 Append(@, [kind |-> "live", xml |-> disk_xml])]
        ELSE Raise(Failed(m1, "attach"), "CmdError")

\* vmxml.add_device(disk_xml); vmxml.sync()
add_device_and_sync(m, disk_xml) ==
    LET m1 == Emit(Emit(m, Ev("add_device", <<>>, 0)), Ev("sync", <<>>, 0))
    IN  IF m1.o.attach
        THEN [m1 EXCEPT !.vm_disks =
                 Append(@, [kind |-> "config", xml |-> disk_xml])]
        ELSE Raise(Failed(m1, "attach"), "LibvirtXMLError")

-----------------------------------------------------------------------------
(* class _Config *)

\* object attribute lookup: a missing attribute raises AttributeError
HasAttr(cfg, attr) == attr \in DOMAIN cfg

\* a faulty variant: "or" in place of "and"
is_auth_case_or(cfg) ==
    Truthy(cfg.ceph_client_name) \/ Truthy(cfg.ceph_client_key)

is_auth_case(cfg) ==
    Truthy(cfg.ceph_client_name) /\ Truthy(cfg.ceph_client_key)

\* "[%s]\n\tkey = %s\n" % (name, key)
key_file_content(name, key) ==
    <<"[">> \o Str(name) \o <<"]\n\tkey = ">> \o Str(key) \o <<"\n">>

define_auth_key(m) ==
    IF is_auth_case(m.cfg)
    THEN LET content == key_file_content(m.cfg.ceph_client_name,
                                         m.cfg.ceph_client_key)
             m1 == Emit(m, Ev("write_key_file", <<m.cfg.key_file, content>>, 0))
         IN  [m1 EXCEPT !.files = WriteFile(@, m.cfg.key_file, content),
                        !.cfg.key_opt = <<"--keyring ">> \o m.cfg.key_file,
                        !.cfg.rbd_key_file = m.cfg.key_file]
    ELSE m

\* the attributes __init__ sets before it touches the file system
ConfigAttrs(p) ==
    [device_format       |-> Get(p, "virt_disk_device_format", <<"raw">>),
     device_bus          |-> Get(p, "virt_disk_device_bus", <<"virtio">>),
     device              |-> Get(p, "virt_disk_device", <<"disk">>),
     device_target       |-> Get(p, "virt_disk_device_target", <<"vdb">>),
     hotplug             |-> Get(p, "virt_disk_device_hotplug", <<"no">>) = <<"yes">>,
     attach_option       |-> Get(p, "virt_device_attach_option", <<"--live">>),
     keep_raw_image_as   |-> Get(p, "keep_raw_image_as", <<"no">>) = <<"yes">>,
     ceph_mon_ip         |-> Get(p, "ceph_mon_ip", <<"EXAMPLE_MON_HOST">>),
     ceph_host_port      |-> Get(p, "ceph_host_port", <<"EXAMPLE_PORTS">>),
     ceph_disk_name      |-> Get(p, "ceph_disk_name", <<"EXAMPLE_SOURCE_NAME">>),
     ceph_client_name    |-> Get(p, "ceph_client_name", None),
     ceph_client_key     |-> Get(p, "ceph_client_key", None),
     ceph_auth_user      |-> Get(p, "ceph_auth_user", None),
     ceph_auth_key       |-> Get(p, "ceph_auth_key", None),
     auth_sec_usage_type |-> Get(p, "ceph_auth_sec_usage_type", <<"ceph">>),
     storage_size        |-> Get(p, "storage_size", <<"1G">>),
     img_file            |-> Get(p, "ceph_image_file", None),
     key_file            |-> Join(TmpDir, <<"ceph.key">>),
     key_opt             |-> <<>>,
     is_local_img_file   |-> ~Truthy(Get(p, "ceph_image_file", None)),
     rbd_key_file        |-> None,
     ceph_cfg            |-> <<>>,
     disk_auth_dict      |-> <<>>,     \* <<>> is None, <<d>> is the dict d
     auth_sec_uuid       |-> 0]        \* 0 is None

\* a faulty variant: the config file is registered for cleanup only when this
\* call created it
_Config_registers_created(m, p) ==
    LET c  == ConfigAttrs(p)
        m1 == [m EXCEPT !.cfg = c, !.cleanup = Append(@, c.key_file)]
        m2 == create_config_file(m1, c.ceph_mon_ip)
        m3 == IF CephConf \in DOMAIN m1.files THEN m2
              ELSE [m2 EXCEPT !.cleanup = Append(@, CephConf)]
    IN  define_auth_key(m3)

\* _Config.__init__
_Config(m, p) ==
    LET c  == ConfigAttrs(p)
        m1 == [m EXCEPT !.cfg = c, !.cleanup = Append(@, c.key_file)]
        m2 == create_config_file(m1, c.ceph_mon_ip)
        m3 == [m2 EXCEPT !.cleanup = Append(@, CephConf)]
    IN  define_auth_key(m3)

define_auth_config_and_log(m) ==
    IF is_auth_case(m.cfg)
    THEN LET m1 == create_secret(m, m.cfg.auth_sec_usage_type,
                                 <<"ceph_auth_secret">>)
             u  == m1.uuids
             m2 == [m1 EXCEPT !.cfg.auth_sec_uuid = u]
             m3 == secret_set_value(m2, u, m2.cfg.ceph_auth_key)
         IN  IF Raised(m1) THEN m1
             ELSE [m3 EXCEPT !.cfg.disk_auth_dict =
                      << [auth_user   |-> m3.cfg.ceph_auth_user,
                          secret_type |-> m3.cfg.auth_sec_usage_type,
                          secret_uuid |-> u] >>]
    ELSE m

-----------------------------------------------------------------------------
(* Module functions *)

_remove_image(m) ==
    LET parts == Split(m.cfg.ceph_disk_name, "/")
    IN  IF Len(parts) < 2 THEN Raise(m, "IndexError")
        ELSE rbd_image_rm(m, m.cfg.ceph_mon_ip, parts[1], parts[2],
                          m.cfg.rbd_key_file)

\* the remote locator string built in _create_image
disk_path(cfg) ==
    <<"rbd:">> \o Str(cfg.ceph_disk_name) \o <<":mon_host=">>
    \o Str(cfg.ceph_mon_ip)
    \o (IF is_auth_case(cfg)
        THEN <<":id=">> \o Str(cfg.ceph_auth_user)
             \o <<":key=">> \o Str(cfg.ceph_auth_key)
        ELSE <<>>)

_create_image(m) ==
    LET m1 == IF m.cfg.img_file = None
              THEN LET path == Join(DataDir, vm_name \o <<"_test.img">>)
                       x    == [m EXCEPT !.cfg.img_file = path]
                   IN  qemu_img_create(x, x.cfg.device_format, path,
                                       x.cfg.storage_size)
              ELSE m
    IN  IF Raised(m1) THEN m1
        \* rbd_cmd reads cfg.disk_path, not the local variable disk_path
        ELSE IF ~HasAttr(m1.cfg, "disk_path")
        THEN Raise(m1, "AttributeError")
        ELSE rbd_info_or_convert(m1, m1.cfg.ceph_mon_ip, m1.cfg.key_opt,
                                 m1.cfg.ceph_disk_name, m1.cfg.device_format,
                                 m1.cfg.img_file, m1.cfg.disk_path)

\* the disk xml _update_vm builds
disk_xml(cfg) ==
    [type_name |-> <<"network">>,
     device    |-> cfg.device,
     target    |-> [dev |-> cfg.device_target, bus |-> cfg.device_bus],
     driver    |-> [name |-> <<"qemu">>, type |-> cfg.device_format],
     source    |-> [protocol |-> <<"rbd">>, name |-> cfg.ceph_disk_name,
                    host_name |-> cfg.ceph_mon_ip,
                    host_port |-> cfg.ceph_host_port],
     \* if cfg.disk_auth_dict: disk_xml.auth = new_auth(**cfg.disk_auth_dict)
     auth      |-> cfg.disk_auth_dict]

\* a faulty variant: the disk is attached whatever keep_raw_image_as is
_update_vm_ignores_keep_raw(m) ==
    IF m.cfg.hotplug
    THEN attach_device(m, disk_xml(m.cfg), m.cfg.attach_option)
    ELSE add_device_and_sync(m, disk_xml(m.cfg))

_update_vm(m) ==
    IF ~m.cfg.keep_raw_image_as
    THEN IF m.cfg.hotplug
         THEN attach_device(m, disk_xml(m.cfg), m.cfg.attach_option)
         ELSE add_device_and_sync(m, disk_xml(m.cfg))
    ELSE m

RECURSIVE RemoveExisting(_, _, _)
\* for f in _FILES_FOR_CLEANUP: if os.path.exists(f): os.remove(f)
RemoveExisting(m, list, i) ==
    IF i > Len(list) THEN m
    ELSE RemoveExisting(IF list[i] \in DOMAIN m.files
                        THEN os_remove(m, list[i]) ELSE m,
                        list, i + 1)

\* a faulty variant: the image is deleted whoever it belongs to
_cleanup_files_any_image(m) ==
    LET m1 == RemoveExisting(m, m.cleanup, 1)
    IN  IF Truthy(m1.cfg.img_file) /\ m1.cfg.img_file \in DOMAIN m1.files
        THEN delete_local_disk(m1, m1.cfg.img_file)
        ELSE m1

_cleanup_files(m) ==
    LET m1 == RemoveExisting(m, m.cleanup, 1)
    IN  IF /\ m1.cfg.is_local_img_file
           /\ Truthy(m1.cfg.img_file)
           /\ m1.cfg.img_file \in DOMAIN m1.files
        THEN delete_local_disk(m1, m1.cfg.img_file)
        ELSE m1

_cleanup_secret(m) ==
    IF m.cfg.auth_sec_uuid # 0
    THEN secret_undefine(m, m.cfg.auth_sec_uuid)
    ELSE m

\* a faulty variant: the local image is created before the remote one is removed
setup_branch_create_first(m) ==
    LET m1 == define_auth_config_and_log(m)
        m2 == IF Raised(m1) THEN m1 ELSE _create_image(m1)
        m3 == IF Raised(m2) THEN m2 ELSE _remove_image(m2)
    IN  IF Raised(m3) THEN m3 ELSE _update_vm(m3)

\* the is_setup branch
setup_branch(m) ==
    LET m1 == define_auth_config_and_log(m)
        m2 == IF Raised(m1) THEN m1 ELSE _remove_image(m1)
        m3 == IF Raised(m2) THEN m2 ELSE _create_image(m2)
    IN  IF Raised(m3) THEN m3 ELSE _update_vm(m3)

\* the else branch
cleanup_branch(m) ==
    LET m1 == _remove_image(m)
        m2 == IF Raised(m1) THEN m1 ELSE _cleanup_files(m1)
    IN  IF Raised(m2) THEN m2 ELSE _cleanup_secret(m2)

create_or_cleanup_ceph_backend_vm_disk(m, p, is_setup) ==
    LET m0 == Emit(m, Ev("package_install", <<>>, 0))
    IN  IF ~package_install(m0) THEN Raise(Failed(m0, "install"), "TestError")
        ELSE LET m1 == _Config(m0, p)
             IN  IF is_setup THEN setup_branch(m1) ELSE cleanup_branch(m1)

-----------------------------------------------------------------------------
(* The test: its parameters and its calls *)

Commands ==
    {"install", "secret_define", "secret_set", "rm", "img_create",
     "convert", "attach"}

\* the commands whose failure raises
Raising == Commands \ {"secret_set"}

\* A call stops at the first command whose failure raises, so at most one
\* of them fails in a call.
Outcomes ==
    {o \in [Commands -> BOOLEAN] :
        \A c, d \in Raising : (~o[c] /\ ~o[d]) => c = d}

\* the outcomes of the commands a setup call runs
SetupOutcomes == Outcomes

\* the outcomes of the commands a cleanup call runs
CleanupOutcomes ==
    {o \in Outcomes : \A c \in Commands \ {"install", "rm"} : o[c]}

\* the outcomes in which exactly the commands of the set failed fail
OutcomeOf(failed) == [c \in Commands |-> c \notin failed]

\* the parameters a test may pass; None is an absent key
Params ==
    [ceph_client_name         : {None, <<>>, <<"client.admin">>},
     ceph_client_key          : {None, <<"KEY">>},
     ceph_auth_user           : {None, <<"client.admin">>},
     ceph_auth_key            : {None, <<"KEY">>},
     virt_disk_device_hotplug : {None, <<"yes">>},
     keep_raw_image_as        : {None, <<"yes">>},
     ceph_image_file          : {None, UserImg},
     ceph_disk_name           : {None, <<"pool", "/", "img">>}]

NoConfig == [unbuilt |-> TRUE]

NoCall ==
    [op |-> "none", failed |-> {}, log |-> <<>>, err |-> NoError,
     auth |-> <<>>, secret |-> 0, created_img |-> FALSE]

Summary(c) ==
    [op |-> c.op, err |-> c.err, secret |-> c.secret,
     created_img |-> c.created_img]

Init ==
    /\ params \in Params
    /\ \E conf \in BOOLEAN :
          files = [f \in (IF conf THEN {CephConf} ELSE {})
                         \cup (IF params.ceph_image_file = UserImg
                               THEN {UserImg} ELSE {})
                     |-> IF f = CephConf THEN <<"mon_host = ">> ELSE <<"image">>]
    /\ secrets = [u \in {} |-> None]
    /\ remote \in BOOLEAN
    /\ vm_disks = <<>>
    /\ _FILES_FOR_CLEANUP = <<>>
    /\ uuids = 0
    /\ last = NoCall
    /\ prev = Summary(NoCall)
    /\ ncalls = 0

\* the state a call starts from
Entry(o) ==
    [files |-> files, secrets |-> secrets, remote |-> remote,
     vm_disks |-> vm_disks, cleanup |-> _FILES_FOR_CLEANUP, uuids |-> uuids,
     cfg |-> NoConfig, log |-> <<>>, err |-> NoError, o |-> o,
     failed |-> {}, created_img |-> FALSE]

\* what a call leaves behind
Return(m, op) ==
    /\ files' = m.files
    /\ secrets' = m.secrets
    /\ remote' = m.remote
    /\ vm_disks' = m.vm_disks
    /\ _FILES_FOR_CLEANUP' = m.cleanup
    /\ uuids' = m.uuids
    /\ last' = [op |-> op, failed |-> m.failed, log |-> m.log, err |-> m.err,
                auth |-> IF HasAttr(m.cfg, "disk_auth_dict")
                         THEN m.cfg.disk_auth_dict ELSE <<>>,
                secret |-> IF HasAttr(m.cfg, "auth_sec_uuid")
                           THEN m.cfg.auth_sec_uuid ELSE 0,
                created_img |-> m.created_img]
    /\ prev' = Summary(last)
    /\ ncalls' = ncalls + 1
    /\ UNCHANGED params

\* create_or_cleanup_ceph_backend_vm_disk(vm, params, is_setup=True)
Setup ==
    /\ ncalls < MaxCalls
    /\ \E o \in SetupOutcomes :
          Return(create_or_cleanup_ceph_backend_vm_disk(Entry(o), params, TRUE),
                 "setup")

\* create_or_cleanup_ceph_backend_vm_disk(vm, params, is_setup=False)
Teardown ==
    /\ ncalls < MaxCalls
    /\ \E o \in CleanupOutcomes :
          Return(create_or_cleanup_ceph_backend_vm_disk(Entry(o), params, FALSE),
                 "teardown")

\* the test process ends and a new one imports the module
Restart ==
    /\ _FILES_FOR_CLEANUP # <<>>
    /\ _FILES_FOR_CLEANUP' = <<>>
    /\ UNCHANGED <<params, files, secrets, remote, vm_disks, uuids, last,
                   prev, ncalls>>

Next == Setup \/ Teardown \/ Restart

Spec == Init /\ [][Next]_vars

\* _update_vm(cfg, vm_name) on the configuration a setup call has built at
\* line 146, the two image steps of lines 147-148 taken to have returned
UpdateVm ==
    /\ ncalls < MaxCalls
    /\ \E o \in SetupOutcomes :
          LET m == define_auth_config_and_log(_Config(Entry(o), params))
          IN  /\ ~Raised(m)
              /\ Return(_update_vm(m), "_update_vm")

NextUpdateVm == UpdateVm

SpecUpdateVm == Init /\ [][NextUpdateVm]_vars

-----------------------------------------------------------------------------
(* Properties *)

HasEv(log, op) == \E i \in DOMAIN log : log[i].op = op

\* the operations of a log, in order
Ops(log) == [i \in DOMAIN log |-> log[i].op]

IsStep(op) == op \notin {"package_install", "create_config_file"}

\* the steps of a call: its operations after the package and the config file
Steps(log) == SelectSeq(Ops(log), IsStep)

AttachOps == {"attach_device", "add_device", "sync"}

cfg0 == ConfigAttrs(params)

WellFormedName == Len(Split(cfg0.ceph_disk_name, "/")) = 2

SetupThenTeardown ==
    /\ prev.op = "setup"
    /\ last.op = "teardown"
    /\ last.err = NoError

\* C1: after a setup call and a teardown call that returns, the key file,
\* the cluster config file and the scratch image the setup created (no
\* ceph_image_file given) do not exist.
C1_NoTemporaryFileLeft ==
    SetupThenTeardown =>
        /\ KeyFile \notin DOMAIN files
        /\ CephConf \notin DOMAIN files
        /\ (params.ceph_image_file = None /\ prev.created_img)
               => ScratchImg \notin DOMAIN files

\* C2: the secret a setup call defined, whether that call returned or
\* raised later, is not defined after the teardown call that follows it.
C2_SecretUndefinedByTeardown ==
    (SetupThenTeardown /\ prev.secret # 0) => prev.secret \notin DOMAIN secrets

\* C3: a setup call (no command failing, the image name of the form
\* pool/image, keep_raw_image_as not set) takes exactly one attach path:
\* attach_device with hotplug, add_device and sync without.
C3_ExactlyOneAttachPath ==
    (/\ last.op = "setup"
     /\ last.failed = {}
     /\ WellFormedName
     /\ ~cfg0.keep_raw_image_as)
    => IF cfg0.hotplug
       THEN /\ HasEv(last.log, "attach_device")
            /\ ~HasEv(last.log, "add_device")
            /\ ~HasEv(last.log, "sync")
       ELSE /\ HasEv(last.log, "add_device")
            /\ HasEv(last.log, "sync")
            /\ ~HasEv(last.log, "attach_device")

\* C4: in every setup call, the first included, the second of two in a row
\* included, the remote image is removed before the local image is created
\* and before the conversion is attempted.
C4_RemoveBeforeCreate ==
    last.op = "setup" =>
        \A i \in DOMAIN last.log :
            last.log[i].op \in {"qemu-img create", "rbd info || qemu-img convert"}
            => \E j \in 1..(i - 1) : last.log[j].op = "rbd_image_rm"

C4_Witness ==
    /\ prev.op = "setup"
    /\ last.op = "setup"
    /\ HasEv(last.log, "rbd_image_rm")
    /\ HasEv(last.log, "qemu-img create")

NoCredentials ==
    ~Truthy(cfg0.ceph_client_name) \/ ~Truthy(cfg0.ceph_client_key)

\* C5: with ceph_client_name or ceph_client_key absent (None or empty), no
\* call writes the key file, defines or sets a secret, passes a key file or
\* a keyring option to the storage commands or builds an auth block.
C5_NoAuthWithoutCredentials ==
    NoCredentials =>
        /\ KeyFile \notin DOMAIN files
        /\ DOMAIN secrets = {}
        /\ last.auth = <<>>
        /\ last.secret = 0
        /\ \A i \in DOMAIN last.log :
              LET e == last.log[i]
              IN  /\ e.op \notin {"write_key_file", "create_secret",
                                  "secret_set_value", "secret_undefine"}
                  /\ e.op = "rbd_image_rm" => e.args[3] = None
                  /\ e.op = "rbd info || qemu-img convert" => e.args[2] = <<>>

C5_Witness ==
    /\ Truthy(cfg0.ceph_client_name)
    /\ ~Truthy(cfg0.ceph_client_key)
    /\ prev.op = "setup"
    /\ last.op = "teardown"
    /\ HasEv(last.log, "rbd_image_rm")

\* C6: with keep_raw_image_as set, _update_vm, the step of a setup call
\* after the image conversion, makes no attach_device, add_device or sync
\* call and the vm gets no disk, whatever the hotplug flag is.
C6_KeepRawNoAttach ==
    (last.op \in {"setup", "_update_vm"} /\ cfg0.keep_raw_image_as) =>
        /\ \A i \in DOMAIN last.log : last.log[i].op \notin AttachOps
        /\ vm_disks = <<>>

C6_Witness ==
    /\ last.op = "_update_vm"
    /\ last.err = NoError
    /\ cfg0.keep_raw_image_as
    /\ cfg0.hotplug

\* the steps of a setup call in which nothing fails
ExpectedSteps ==
    (IF is_auth_case(cfg0)
     THEN <<"write_key_file", "create_secret", "secret_set_value">>
     ELSE <<>>)
    \o <<"rbd_image_rm">>
    \o (IF cfg0.img_file = None THEN <<"qemu-img create">> ELSE <<>>)
    \o <<"rbd info || qemu-img convert">>
    \o (IF cfg0.keep_raw_image_as THEN <<>>
        ELSE IF cfg0.hotplug THEN <<"attach_device">>
        ELSE <<"add_device", "sync">>)

\* C7: a setup call in which the install and every command succeed and the
\* image name has the form pool/image makes its steps in the order of
\* ExpectedSteps and returns without error.
C7_SetupStepsInOrder ==
    (last.op = "setup" /\ last.failed = {} /\ WellFormedName) =>
        /\ last.err = NoError
        /\ Steps(last.log) = ExpectedSteps

\* C8: in a setup call on the auth path the key file holds the principal
\* of the auth block and of the remote locator and the key set as the
\* value of the secret and put into the remote locator, and none of them
\* is absent.
C8_OneCredentialPair ==
    (last.op = "setup" /\ last.auth # <<>>) =>
        LET user == last.auth[1].auth_user
        IN  \A i \in DOMAIN last.log :
               last.log[i].op = "secret_set_value" =>
                  LET key == last.log[i].args[1]
                  IN  /\ Truthy(user)
                      /\ Truthy(key)
                      /\ KeyFile \in DOMAIN files
                      /\ files[KeyFile] = key_file_content(user, key)
                      /\ disk_path(cfg0) =
                            <<"rbd:">> \o cfg0.ceph_disk_name
                            \o <<":mon_host=">> \o cfg0.ceph_mon_ip
                            \o <<":id=">> \o user \o <<":key=">> \o key

\* the files a call removed, in order
Removals(log) ==
    LET IsRemoval(e) == e.op \in {"os.remove", "delete_local_disk"}
    IN  SelectSeq(log, IsRemoval)

\* the teardown call as a process that has just imported the module makes
\* it: _FILES_FOR_CLEANUP is empty when the call starts
FreshTeardown(o) ==
    create_or_cleanup_ceph_backend_vm_disk(
        [Entry(o) EXCEPT !.cleanup = <<>>], params, FALSE)

\* C9: every teardown call removes the files, and leaves the files, the
\* secrets and the remote image, that the same call made with an empty
\* _FILES_FOR_CLEANUP removes and leaves.
C9_FreshTeardownSame ==
    [][(ncalls' = ncalls + 1 /\ last'.op = "teardown") =>
          LET r == FreshTeardown(OutcomeOf(last'.failed))
          IN  /\ files' = r.files
              /\ secrets' = r.secrets
              /\ remote' = r.remote
              /\ last'.err = r.err
              /\ Removals(last'.log) = Removals(r.log)]_vars

C9_Witness ==
    /\ SetupThenTeardown
    /\ Len(_FILES_FOR_CLEANUP) = 4
    /\ HasEv(last.log, "os.remove")
    /\ CephConf \notin DOMAIN files

\* C10: no call deletes or rewrites the image file of the caller
\* (ceph_image_file).
C10_UserImageKept ==
    [][(params.ceph_image_file = UserImg /\ UserImg \in DOMAIN files) =>
          /\ UserImg \in DOMAIN files'
          /\ files'[UserImg] = files[UserImg]]_vars

C10_Witness ==
    /\ params.ceph_image_file = UserImg
    /\ SetupThenTeardown
    /\ UserImg \in DOMAIN files
    /\ HasEv(last.log, "os.remove")

====
